---- MODULE Spec2Model ----
(***************************************************************************)
(* Model of tensornetwork/block_sparse/block_tensor.py: the combinatorial  *)
(* core of the block-sparse tensor library (fused-charge degeneracies,     *)
(* charge reduction, sparse lookup, partition selection and the diagonal   *)
(* block locator).                                                         *)
(*                                                                         *)
(* Every function of the file is pure, so the state machine holds the      *)
(* inputs of a call (drawn by Init), the operation that was applied and    *)
(* its result.  numpy arrays are sequences; array VALUES that are indices  *)
(* (labels, positions, partitions) are kept 0-based as in the code, so     *)
(* a[k] of the code is a[k + 1] here.                                      *)
(*                                                                         *)
(* The charge algebra (tensornetwork/block_sparse/charge.py) is imported   *)
(* by the file but is not part of the sources at hand; it is modelled from *)
(* section 6 of the specification for one U(1) symmetry: a charge object   *)
(* is a record of its distinct values (unique_charges) and one 0-based     *)
(* label per position (charge_labels).                                     *)
(*                                                                         *)
(* The numpy dtypes of the code (int16 labels, uint32 offsets) only wrap   *)
(* beyond 32767 distinct charges or 2^32 elements, far above every bound   *)
(* used here, so plain integers are used.                                  *)
(***************************************************************************)
EXTENDS Integers, Sequences, FiniteSets, TLC

VARIABLES charges, flows, dims, op, arg, res

vars == <<charges, flows, dims, op, arg, res>>

(***************************************************************************)
(* Bounds of the checked input space.                                      *)
(***************************************************************************)
\* largest number of legs of a tensor
MaxLegs == 3
\* largest total number of charge entries over all legs of a tensor
MaxTotal == 5
\* the same two bounds for the tensors handed to _find_diagonal_sparse_blocks,
\* which is applied to every partition of each of them
MaxBlockLegs == 3
MaxBlockTotal == 4
\* largest number of dimensions handed to _find_best_partition
MaxPartLegs == 3
\* largest single dimension handed to _find_best_partition
MaxPartDim == 4
\* the U(1) charge values a leg may carry
ChargeValues == {0, 1}

(***************************************************************************)
(* numpy helpers                                                           *)
(***************************************************************************)
Range(s) == {s[i] : i \in DOMAIN s}

RECURSIVE SeqSum(_)
SeqSum(s) == IF s = <<>> THEN 0 ELSE Head(s) + SeqSum(Tail(s))

RECURSIVE SeqProd(_)
SeqProd(s) == IF s = <<>> THEN 1 ELSE Head(s) * SeqProd(Tail(s))

Abs(x) == IF x < 0 THEN -x ELSE x

\* np.concatenate of a list of 1-d arrays (the caller checks the list is not empty)
RECURSIVE Flatten(_)
Flatten(ss) == IF ss = <<>> THEN <<>> ELSE Head(ss) \o Flatten(Tail(ss))

\* np.arange(n)
Arange(n) == [i \in 1..n |-> i - 1]

\* a[mask] for a boolean array mask: the entries of a where mask holds, in order
RECURSIVE Masked(_, _)
Masked(a, mask) ==
  IF a = <<>> THEN <<>>
  ELSE (IF Head(mask) THEN <<Head(a)>> ELSE <<>>) \o Masked(Tail(a), Tail(mask))

\* np.nonzero(mask)[0] and np.where(mask)[0]: the 0-based positions where mask holds
Where(mask) == Masked(Arange(Len(mask)), mask)

RECURSIVE SortedSeq(_)
SortedSeq(S) ==
  IF S = {} THEN <<>>
  ELSE LET m == CHOOSE x \in S : \A y \in S : x <= y
       IN <<m>> \o SortedSeq(S \ {m})

\* 0-based position of the first occurrence of v in s
FirstIndex(s, v) ==
  (CHOOSE i \in DOMAIN s : s[i] = v /\ \A j \in 1..(i - 1) : s[j] # v) - 1

\* np.unique(a, return_inverse=True, return_counts=True)
NpUnique(a) ==
  LET values == SortedSeq(Range(a))
  IN [values  |-> values,
      inverse |-> [i \in DOMAIN a |-> FirstIndex(values, a[i])],
      counts  |-> [k \in DOMAIN values |->
                     Cardinality({i \in DOMAIN a : a[i] = values[k]})]]

\* np.ravel(a[:, None] + b[None, :]): all sums, row-major
OuterSum(a, b) ==
  [k \in 1..(Len(a) * Len(b)) |->
     a[((k - 1) \div Len(b)) + 1] + b[((k - 1) % Len(b)) + 1]]

\* np.ravel(a[:, None] * b[None, :]): all products, row-major
OuterProduct(a, b) ==
  [k \in 1..(Len(a) * Len(b)) |->
     a[((k - 1) \div Len(b)) + 1] * b[((k - 1) % Len(b)) + 1]]

(***************************************************************************)
(* Charge algebra (charge.py), modelled from the specification, section 6. *)
(***************************************************************************)
\* obj.__init__(charges, charge_labels, charge_types)
MkCharge(qnums, labels) == [unique_charges |-> qnums, charge_labels |-> labels]

\* BaseCharge(charges): distinct values in canonical (ascending) order + labels
BaseCharge(raw) ==
  LET u == NpUnique(raw) IN MkCharge(u.values, u.inverse)

\* len(charge) / charge.dim
Dim(c) == Len(c.charge_labels)

\* charge.num_unique
NumUnique(c) == Len(c.unique_charges)

\* the charge value at every position
ChargeSeq(c) == [i \in DOMAIN c.charge_labels |-> c.unique_charges[c.charge_labels[i] + 1]]

\* the dual of one charge value under a flow: negation when flow is false
DualValue(q, flow) == IF flow THEN q ELSE -q

\* charge.dual(flow) and charge * flow: the values are dualised, the labels kept
Dual(c, flow) ==
  MkCharge([k \in DOMAIN c.unique_charges |-> DualValue(c.unique_charges[k], flow)],
           c.charge_labels)

\* fuse_ndarray_charges(a, b, charge_types) for U(1): all sums, row-major
FuseNdarrayCharges(a, b) == OuterSum(a, b)

\* fuse_ndarrays([a, b, ...]): outer sums, row-major
RECURSIVE FuseNdarrays(_)
FuseNdarrays(arrays) ==
  IF Len(arrays) = 1 THEN arrays[1]
  ELSE OuterSum(FuseNdarrays(SubSeq(arrays, 1, Len(arrays) - 1)),
                arrays[Len(arrays)])

\* fuse_degeneracies(d1, d2): all products, row-major
FuseDegeneracies(d1, d2) == OuterProduct(d1, d2)

\* chargeA + chargeB: fusion of every pair of positions, row-major
ChargeAdd(A, B) ==
  LET comb == FuseNdarrayCharges(A.unique_charges, B.unique_charges)
      u    == NpUnique(comb)
      nB   == NumUnique(B)
      a    == A.charge_labels
      b    == B.charge_labels
  IN MkCharge(u.values,
              [k \in 1..(Len(a) * Len(b)) |->
                 u.inverse[a[((k - 1) \div Len(b)) + 1] * nB
                           + b[((k - 1) % Len(b)) + 1] + 1]])

\* charge.unique(return_counts=True): distinct values in label order
ChargeUnique(c) ==
  LET tmp == NpUnique(c.charge_labels)
  IN [obj    |-> MkCharge([k \in DOMAIN tmp.values |->
                             c.unique_charges[tmp.values[k] + 1]],
                          Arange(Len(tmp.values))),
      inverse |-> tmp.inverse,
      counts |-> tmp.counts]

\* intersect(A, B, axis=1, return_indices=True): common values ascending,
\* with the position of each in A and in B
Intersect(A, B) ==
  LET common == SortedSeq(Range(A) \cap Range(B))
  IN [values |-> common,
      ia |-> [k \in DOMAIN common |-> FirstIndex(A, common[k])],
      ib |-> [k \in DOMAIN common |-> FirstIndex(B, common[k])]]

\* fuse_charges(charges, flows): left-to-right fusion of all legs
RECURSIVE FuseCharges(_, _)
FuseCharges(cs, fs) ==
  IF Len(cs) = 1 THEN Dual(cs[1], fs[1])
  ELSE ChargeAdd(FuseCharges(SubSeq(cs, 1, Len(cs) - 1), SubSeq(fs, 1, Len(fs) - 1)),
                 Dual(cs[Len(cs)], fs[Len(fs)]))

\* charge.identity_charges for U(1)
IdentityCharge == 0

\* np.nonzero(charge == charge.identity_charges)[0]: 0-based positions
\* whose charge is the identity
IdentityPositions(c) ==
  Where([i \in DOMAIN c.charge_labels |->
           c.unique_charges[c.charge_labels[i] + 1] = IdentityCharge])

\* charge.reduce(target_charges, return_locations, strides)
ChargeReduce(c, target, stride) ==
  LET x == Intersect(c.unique_charges, target)
      kept == [i \in DOMAIN c.charge_labels |->
                 c.unique_charges[c.charge_labels[i] + 1] \in Range(x.values)]
      newlab == [i \in DOMAIN c.charge_labels |->
                   IF kept[i]
                   THEN FirstIndex(x.values, c.unique_charges[c.charge_labels[i] + 1])
                   ELSE -1]
      where == Where(kept)
  IN [obj  |-> MkCharge(x.values, Masked(newlab, kept)),
      locs |-> [k \in DOMAIN where |-> stride * where[k]]]

(***************************************************************************)
(* block_tensor.py                                                         *)
(***************************************************************************)
\* a[lo:] and a[:hi] of the code, for 0-based lo and hi
From(a, lo) == SubSeq(a, lo + 1, Len(a))
Upto(a, hi) == SubSeq(a, 1, hi)

\* np.logical_not(flows)
LogicalNot(fs) == [n \in DOMAIN fs |-> ~fs[n]]

\* np.cumsum(a)
CumSum(a) == [i \in DOMAIN a |-> SeqSum(SubSeq(a, 1, i))]

\* _get_strides(dims): flip(append(1, cumprod(flip(dims[1:]))))
RECURSIVE CumProd(_)
CumProd(a) ==
  IF a = <<>> THEN <<>>
  ELSE LET c == CumProd(SubSeq(a, 1, Len(a) - 1))
       IN c \o <<(IF c = <<>> THEN 1 ELSE c[Len(c)]) * a[Len(a)]>>

Flip(a) == [i \in DOMAIN a |-> a[Len(a) + 1 - i]]

GetStrides(ds) == Flip(<<1>> \o CumProd(Flip(From(ds, 1))))

\* np.arange(0, stride * dim, stride) raises for a zero stride
StrideArraysRaise(ds, strides) == \E n \in DOMAIN ds : strides[n] = 0

\* fuse_stride_arrays(dims, strides)
FuseStrideArrays(ds, strides) ==
  FuseNdarrays([n \in DOMAIN ds |-> [k \in 1..ds[n] |-> (k - 1) * strides[n]]])

\* _find_best_partition(dims) raises ValueError for a single dimension
FindBestPartitionRaises(ds) == Len(ds) = 1

\* FindBestPartition breaking ties towards the smallest right-hand product
FindBestPartitionSmallRight(ds) ==
  LET diffs == [n \in 1..(Len(ds) - 1) |->
                  Abs(SeqProd(Upto(ds, n)) - SeqProd(From(ds, n)))]
      least == CHOOSE d \in Range(diffs) : \A e \in Range(diffs) : d <= e
      min_inds == Where([i \in DOMAIN diffs |-> diffs[i] = least])
      right_dims == [k \in DOMAIN min_inds |-> SeqProd(From(ds, min_inds[k] + 1))]
      fewest == CHOOSE d \in Range(right_dims) : \A e \in Range(right_dims) : d <= e
  IN min_inds[FirstIndex(right_dims, fewest) + 1] + 1

\* _find_best_partition(dims), for len(dims) >= 2
FindBestPartition(ds) ==
  LET diffs == [n \in 1..(Len(ds) - 1) |->
                  Abs(SeqProd(Upto(ds, n)) - SeqProd(From(ds, n)))]
      least == CHOOSE d \in Range(diffs) : \A e \in Range(diffs) : d <= e
      min_inds == Where([i \in DOMAIN diffs |-> diffs[i] = least])
      right_dims == [k \in DOMAIN min_inds |-> SeqProd(From(ds, min_inds[k] + 1))]
      most == CHOOSE d \in Range(right_dims) : \A e \in Range(right_dims) : d >= e
      argmax == FirstIndex(right_dims, most)
      min_ind == IF Len(min_inds) > 1 THEN min_inds[argmax + 1] ELSE min_inds[1]
  IN min_ind + 1

\* DegeneracyStep with the new leg's degeneracies left out of the product
DegeneracyStepDropLegCounts(accumulated_charges, accumulated_degeneracies, leg_arg, flow) ==
  LET leg == ChargeUnique(leg_arg)
      fused_charges == ChargeAdd(accumulated_charges, Dual(leg.obj, flow))
      fused_degeneracies == FuseDegeneracies(accumulated_degeneracies,
                                             [k \in DOMAIN leg.counts |-> 1])
      acc == ChargeUnique(fused_charges).obj
      sameLabel(m) ==
        Masked(fused_degeneracies,
               [k \in DOMAIN fused_charges.charge_labels |->
                  fused_charges.charge_labels[k] = acc.charge_labels[m]])
  IN [charges |-> acc,
      degeneracies |-> [m \in 1..Dim(acc) |-> SeqSum(sameLabel(m))]]

\* one pass of the loop of compute_fused_charge_degeneracies (lines 169-181)
DegeneracyStep(accumulated_charges, accumulated_degeneracies, leg_arg, flow) ==
  LET leg == ChargeUnique(leg_arg)
      fused_charges == ChargeAdd(accumulated_charges, Dual(leg.obj, flow))
      fused_degeneracies == FuseDegeneracies(accumulated_degeneracies, leg.counts)
      acc == ChargeUnique(fused_charges).obj
      sameLabel(m) ==
        Masked(fused_degeneracies,
               [k \in DOMAIN fused_charges.charge_labels |->
                  fused_charges.charge_labels[k] = acc.charge_labels[m]])
  IN [charges |-> acc,
      degeneracies |-> [m \in 1..Dim(acc) |-> SeqSum(sameLabel(m))]]

\* the loop of compute_fused_charge_degeneracies (line 168)
RECURSIVE DegeneracyFold(_, _, _, _)
DegeneracyFold(cs, fs, n, acc) ==
  IF n > Len(cs) THEN acc
  ELSE DegeneracyFold(cs, fs, n + 1,
                      DegeneracyStep(acc.charges, acc.degeneracies, cs[n], fs[n]))

\* compute_fused_charge_degeneracies(charges, flows)
ComputeFusedChargeDegeneracies(cs, fs) ==
  LET first == ChargeUnique(Dual(cs[1], fs[1]))
  IN IF Len(cs) = 1
     THEN [charges |-> first.obj, degeneracies |-> first.counts]
     ELSE DegeneracyFold(cs, fs, 2, [charges |-> first.obj, degeneracies |-> first.counts])

\* the fold of compute_unique_fused_charges (lines 205-208)
RECURSIVE UniqueFold(_, _, _, _)
UniqueFold(cs, fs, n, accumulated_charges) ==
  IF n > Len(cs) THEN accumulated_charges
  ELSE UniqueFold(cs, fs, n + 1,
         ChargeUnique(ChargeAdd(accumulated_charges,
                                Dual(ChargeUnique(cs[n]).obj, fs[n]))).obj)

\* compute_unique_fused_charges(charges, flows)
ComputeUniqueFusedCharges(cs, fs) ==
  IF Len(cs) = 1 THEN ChargeUnique(Dual(cs[1], fs[1])).obj
  ELSE UniqueFold(cs, fs, 2, ChargeUnique(Dual(cs[1], fs[1])).obj)

\* ComputeNumNonzero returning the first degeneracy instead of the identity's
ComputeNumNonzeroFirstEntry(cs, fs) ==
  IF \E n \in DOMAIN cs : Dim(cs[n]) = 0 THEN 0
  ELSE LET acc == ComputeFusedChargeDegeneracies(cs, fs)
           nz_inds == IdentityPositions(acc.charges)
       IN IF Len(nz_inds) > 0 THEN acc.degeneracies[1] ELSE 0

\* compute_num_nonzero(charges, flows)
ComputeNumNonzero(cs, fs) ==
  IF \E n \in DOMAIN cs : Dim(cs[n]) = 0 THEN 0
  ELSE LET acc == ComputeFusedChargeDegeneracies(cs, fs)
           nz_inds == IdentityPositions(acc.charges)
       IN IF Len(nz_inds) > 0 THEN acc.degeneracies[nz_inds[1] + 1] ELSE 0

\* ComputeSparseLookup without the compaction lookup[lookup >= 0]
ComputeSparseLookupMasked(cs, fs, target_charges) ==
  LET fused_charges == FuseCharges(cs, fs)
      u == ChargeUnique(fused_charges)
      label_to_unique == Intersect(u.obj.unique_charges,
                                   target_charges.unique_charges).ia
      tmp == [k \in 1..Dim(u.obj) |->
                IF (k - 1) \in Range(label_to_unique) THEN k - 1 ELSE -1]
  IN [lookup |-> [i \in DOMAIN u.inverse |-> tmp[u.inverse[i] + 1]],
      unique_charges |-> u.obj,
      label_to_unique |-> label_to_unique]

\* compute_sparse_lookup(charges, flows, target_charges)
ComputeSparseLookup(cs, fs, target_charges) ==
  LET fused_charges == FuseCharges(cs, fs)
      u == ChargeUnique(fused_charges)
      label_to_unique == Intersect(u.obj.unique_charges,
                                   target_charges.unique_charges).ia
      tmp == [k \in 1..Dim(u.obj) |->
                IF (k - 1) \in Range(label_to_unique) THEN k - 1 ELSE -1]
      lookup == [i \in DOMAIN u.inverse |-> tmp[u.inverse[i] + 1]]
  IN [lookup |-> Masked(lookup, [i \in DOMAIN lookup |-> lookup[i] >= 0]),
      unique_charges |-> u.obj,
      label_to_unique |-> label_to_unique]

\* the combined labels of reduce_charges (lines 283-296): the kept fused
\* charges and, for every pair of a left and a right label, the label of the
\* pair's fused charge among the kept ones, or -1
NewCombLabels(left_ind, right_ind, target_charges) ==
  LET comb_qnums == FuseNdarrayCharges(left_ind.unique_charges,
                                       right_ind.unique_charges)
      u == NpUnique(comb_qnums)
      x == Intersect(u.values, target_charges)
      map_to_kept == [k \in 1..Len(u.values) |->
                        IF (k - 1) \in Range(x.ia) THEN FirstIndex(x.ia, k - 1)
                        ELSE -1]
  IN [reduced_qnums |-> x.values,
      new_comb_labels |->
        [n \in 1..NumUnique(left_ind) |->
           [m \in 1..NumUnique(right_ind) |->
              map_to_kept[u.inverse[(n - 1) * NumUnique(right_ind) + m] + 1]]]]

\* new_comb_labels[n, right_ind.charge_labels] (lines 300 and 318)
TempLabel(new_comb_labels, right_ind, n) ==
  [j \in DOMAIN right_ind.charge_labels |->
     new_comb_labels[n + 1][right_ind.charge_labels[j] + 1]]

\* temp_label >= 0 (line 319)
TempKeep(temp_label) == [j \in DOMAIN temp_label |-> temp_label[j] >= 0]

\* reduced_rows[n] = temp_label[temp_label >= 0] (line 301)
ReducedRow(temp_label) == Masked(temp_label, TempKeep(temp_label))

\* row_locs[n] (lines 320-323)
RowLocs(temp_label, has_strides, col_pos) ==
  IF has_strides THEN Masked(col_pos, TempKeep(temp_label))
  ELSE Where(TempKeep(temp_label))

\* base + row_locs[...] (lines 327 and 332)
Shifted(base, locs) == [k \in DOMAIN locs |-> base + locs[k]]

\* reduce_charges after the fusion of the two halves (lines 283-337);
\* strides_raise is fuse_stride_arrays raising on a zero stride
ReduceFused(left_ind, right_ind, target_charges, return_locations, has_strides, strides_raise, row_pos, col_pos) ==
  LET comb == NewCombLabels(left_ind, right_ind, target_charges)
      label_rows == [i \in DOMAIN left_ind.charge_labels |->
                       ReducedRow(TempLabel(comb.new_comb_labels, right_ind,
                                            left_ind.charge_labels[i]))]
      obj == MkCharge(comb.reduced_qnums, Flatten(label_rows))
      loc_rows == [i \in 1..Dim(left_ind) |->
                     Shifted(IF has_strides THEN row_pos[i]
                             ELSE (i - 1) * Dim(right_ind),
                             RowLocs(TempLabel(comb.new_comb_labels, right_ind,
                                               left_ind.charge_labels[i]),
                                     has_strides, col_pos))]
      raised == [err |-> TRUE, obj |-> MkCharge(<<>>, <<>>), locs |-> <<>>]
  IN IF label_rows = <<>>
     THEN raised     \* np.concatenate of an empty list (line 306)
     ELSE IF ~return_locations
     THEN [err |-> FALSE, obj |-> obj, locs |-> <<>>]
     ELSE IF strides_raise
     THEN raised     \* np.arange with a zero step (lines 315-316)
     ELSE [err |-> FALSE, obj |-> obj, locs |-> Flatten(loc_rows)]

\* reduce_charges for two or more legs, split at partition (lines 275-337)
ReducePartitioned(cs, fs, target_charges, return_locations, has_strides, strides, tensor_dims, partition) ==
  ReduceFused(FuseCharges(Upto(cs, partition), Upto(fs, partition)),
              FuseCharges(From(cs, partition), From(fs, partition)),
              target_charges, return_locations, has_strides,
              has_strides /\ StrideArraysRaise(tensor_dims, strides),
              FuseStrideArrays(Upto(tensor_dims, partition), Upto(strides, partition)),
              FuseStrideArrays(From(tensor_dims, partition), From(strides, partition)))

\* reduce_charges of a single leg (lines 268-273)
ReduceSingle(c, flow, target_charges, return_locations, stride) ==
  LET single == ChargeReduce(Dual(c, flow), target_charges, stride)
  IN [err |-> FALSE, obj |-> single.obj,
      locs |-> IF return_locations THEN single.locs ELSE <<>>]

\* reduce_charges(charges, flows, target_charges, return_locations, strides);
\* has_strides is "strides is not None"; err is a raised exception
ReduceCharges(cs, fs, target_charges, return_locations, has_strides, strides) ==
  IF Len(cs) = 1
  THEN ReduceSingle(cs[1], fs[1], target_charges, return_locations,
                    IF has_strides THEN strides[1] ELSE 1)
  ELSE ReducePartitioned(cs, fs, target_charges, return_locations, has_strides,
                         strides, [n \in DOMAIN cs |-> Dim(cs[n])],
                         FindBestPartition([n \in DOMAIN cs |-> Dim(cs[n])]))

\* CumulateNumNz as an inclusive running sum
CumulateNumNzInclusive(row_num_nz) ==
  [i \in DOMAIN row_num_nz |-> SeqSum(SubSeq(row_num_nz, 1, i))]

\* np.insert(np.cumsum(row_num_nz[0:-1]), 0, 0): the exclusive running sum
CumulateNumNz(row_num_nz) ==
  <<0>> \o CumSum(SubSeq(row_num_nz, 1, Len(row_num_nz) - 1))

\* BlockDims reading the row degeneracies without the row_to_block indirection
BlockDimsNoRowMap(row_degen, col_degen, row_to_block, col_to_block) ==
  <<[n \in DOMAIN row_to_block |-> row_degen[n]],
    [n \in DOMAIN row_to_block |-> col_degen[col_to_block[n] + 1]]>>

\* the 2-by-num_blocks table block_dims (lines 419-422)
BlockDims(row_degen, col_degen, row_to_block, col_to_block) ==
  <<[n \in DOMAIN row_to_block |-> row_degen[row_to_block[n] + 1]],
    [n \in DOMAIN row_to_block |-> col_degen[col_to_block[n] + 1]]>>

\* number of blocks below which the per-block boolean scan is used (line 407)
SmallBlockLimit == 15

\* row_locs[n, :] (lines 407-417): both gather strategies build the same
\* num_blocks x row_ind.dim boolean matrix
BlockRowLocs(row_labels, n, num_blocks) ==
  [j \in DOMAIN row_labels |->
     IF num_blocks < SmallBlockLimit
     THEN row_labels[j] = n
     ELSE \E k \in DOMAIN row_labels : k = j /\ row_labels[k] = n]

\* the special cases of _find_diagonal_sparse_blocks: a matrix of trivial
\* height or width (lines 365-379)
DegenerateBlocks(num_nonzero, transposed) ==
  [err |-> FALSE,
   block_maps |-> <<Arange(num_nonzero)>>,
   obj |-> MkCharge(<<0>>, Arange(0)),
   block_dims |-> IF transposed THEN Flip(<<<<1>>, <<num_nonzero>>>>)
                  ELSE <<<<1>>, <<num_nonzero>>>>]

\* the gathering of the block maps (lines 400-432); x is the intersection of
\* the row and column charges, reduced the result of reduce_charges
GatherBlocks(row_degen, col_degen, x, reduced) ==
  LET num_blocks == Len(x.values)
      row_labels == reduced.obj.charge_labels
      row_num_nz == [i \in DOMAIN row_labels |->
                       col_degen[x.ib[row_labels[i] + 1] + 1]]
      cumulate_num_nz == CumulateNumNz(row_num_nz)
      block_dims == BlockDims(row_degen, col_degen, x.ia, x.ib)
  IN [err |-> reduced.err,
      block_maps |-> [n \in 1..num_blocks |->
                        OuterSum(Masked(cumulate_num_nz,
                                        BlockRowLocs(row_labels, n - 1, num_blocks)),
                                 Arange(block_dims[2][n]))],
      obj |-> MkCharge(x.values, Arange(num_blocks)),
      block_dims |-> block_dims]

\* _find_diagonal_sparse_blocks for a proper partition, from the fused
\* charges and degeneracies of the rows and columns (lines 386-432)
PartitionedBlocks(row_cs, row_fs, row, col) ==
  LET x == Intersect(row.charges.unique_charges, col.charges.unique_charges)
  IN IF Len(x.values) = 0
     THEN [err |-> FALSE, block_maps |-> <<>>,
           obj |-> MkCharge(<<>>, Arange(0)), block_dims |-> <<>>]
     ELSE GatherBlocks(row.degeneracies, col.degeneracies, x,
                       ReduceCharges(row_cs, row_fs, x.values, FALSE, FALSE, <<>>))

\* _find_diagonal_sparse_blocks(charges, flows, partition)
FindDiagonalSparseBlocks(cs, fs, partition) ==
  IF partition \in {0, Len(cs)}
  THEN DegenerateBlocks(ComputeNumNonzero(cs, fs), partition = Len(fs))
  ELSE PartitionedBlocks(
         Upto(cs, partition), Upto(fs, partition),
         ComputeFusedChargeDegeneracies(Upto(cs, partition), Upto(fs, partition)),
         ComputeFusedChargeDegeneracies(From(cs, partition),
                                        LogicalNot(From(fs, partition))))

(***************************************************************************)
(* The state machine: Init draws the inputs of one call, an action applies *)
(* one function of the file to them and records the result.                *)
(***************************************************************************)
\* all charge sequences of a leg with at most n entries
RECURSIVE LegSeqs(_)
LegSeqs(n) ==
  IF n = 0 THEN {<<>>}
  ELSE LET shorter == LegSeqs(n - 1)
       IN shorter \cup {Append(s, v) : s \in {t \in shorter : Len(t) = n - 1},
                                        v \in ChargeValues}

\* all lists of n legs with at most total charge entries together
RECURSIVE LegLists(_, _)
LegLists(n, total) ==
  IF n = 0 THEN {<<>>}
  ELSE UNION {{<<leg>> \o rest : rest \in LegLists(n - 1, total - Len(leg))} :
              leg \in LegSeqs(total)}

InputsUpTo(legs, total) == UNION {LegLists(n, total) : n \in 1..legs}

ChargeInputs == InputsUpTo(MaxLegs, MaxTotal)

BlockChargeInputs == InputsUpTo(MaxBlockLegs, MaxBlockTotal)

\* target charges handed to reduce_charges and compute_sparse_lookup
TargetInputs == {<<>>, <<0>>, <<1>>, <<1, 0>>, <<-1, 0, 2>>}

DimsInputs == UNION {[1..n -> 1..MaxPartDim] : n \in 1..MaxPartLegs}

\* the BaseCharge objects of the legs
Legs == [n \in DOMAIN charges |-> BaseCharge(charges[n])]

TensorDims == [n \in DOMAIN charges |-> Len(charges[n])]

NoArg == [partition |-> 0, target |-> <<>>, return_locations |-> FALSE,
          has_strides |-> FALSE, strides |-> <<>>]

Init ==
  /\ charges \in ChargeInputs
  /\ flows \in [1..Len(charges) -> BOOLEAN]
  /\ dims = <<>>
  /\ op = "input"
  /\ arg = NoArg
  /\ res = [err |-> FALSE]

InitBlocks ==
  /\ charges \in BlockChargeInputs
  /\ flows \in [1..Len(charges) -> BOOLEAN]
  /\ dims = <<>>
  /\ op = "input"
  /\ arg = NoArg
  /\ res = [err |-> FALSE]

InitPartition ==
  /\ charges = <<>>
  /\ flows = <<>>
  /\ dims \in DimsInputs
  /\ op = "input"
  /\ arg = NoArg
  /\ res = [err |-> FALSE]

CallFindBestPartition ==
  /\ op = "input"
  /\ op' = "find_best_partition"
  /\ res' = IF FindBestPartitionRaises(dims) THEN [err |-> TRUE, partition |-> 0]
            ELSE [err |-> FALSE, partition |-> FindBestPartition(dims)]
  /\ UNCHANGED <<charges, flows, dims, arg>>

CallComputeFusedChargeDegeneracies ==
  /\ op = "input"
  /\ op' = "compute_fused_charge_degeneracies"
  /\ res' = [err |-> FALSE] @@ ComputeFusedChargeDegeneracies(Legs, flows)
  /\ UNCHANGED <<charges, flows, dims, arg>>

CallComputeUniqueFusedCharges ==
  /\ op = "input"
  /\ op' = "compute_unique_fused_charges"
  /\ res' = [err |-> FALSE, charges |-> ComputeUniqueFusedCharges(Legs, flows)]
  /\ UNCHANGED <<charges, flows, dims, arg>>

CallComputeNumNonzero ==
  /\ op = "input"
  /\ op' = "compute_num_nonzero"
  /\ res' = [err |-> FALSE, count |-> ComputeNumNonzero(Legs, flows)]
  /\ UNCHANGED <<charges, flows, dims, arg>>

CallComputeSparseLookup ==
  /\ op = "input"
  /\ \E t \in TargetInputs :
       /\ arg' = [NoArg EXCEPT !.target = t]
       /\ res' = [err |-> FALSE] @@ ComputeSparseLookup(Legs, flows, BaseCharge(t))
  /\ op' = "compute_sparse_lookup"
  /\ UNCHANGED <<charges, flows, dims>>

\* the strides a caller passes: none, the row-major ones of _get_strides, or
\* those of the transposed (leg-reversed) view
StrideInputs ==
  {[has_strides |-> FALSE, strides |-> <<>>],
   [has_strides |-> TRUE, strides |-> GetStrides(TensorDims)],
   [has_strides |-> TRUE, strides |-> Flip(GetStrides(Flip(TensorDims)))]}

CallReduceCharges ==
  /\ op = "input"
  /\ \E t \in TargetInputs, rl \in BOOLEAN, st \in StrideInputs :
       /\ rl \/ ~st.has_strides
       /\ arg' = [NoArg EXCEPT !.target = t, !.return_locations = rl,
                               !.has_strides = st.has_strides,
                               !.strides = st.strides]
       /\ res' = ReduceCharges(Legs, flows, t, rl, st.has_strides, st.strides)
  /\ op' = "reduce_charges"
  /\ UNCHANGED <<charges, flows, dims>>

CallFindDiagonalSparseBlocks ==
  /\ op = "input"
  /\ \E p \in 0..Len(charges) :
       /\ arg' = [NoArg EXCEPT !.partition = p]
       /\ res' = FindDiagonalSparseBlocks(Legs, flows, p)
  /\ op' = "find_diagonal_sparse_blocks"
  /\ UNCHANGED <<charges, flows, dims>>

\* the degeneracy accumulator (section 4.3 of the specification)
NextDegeneracy ==
  \/ CallComputeFusedChargeDegeneracies
  \/ CallComputeUniqueFusedCharges
  \/ CallComputeNumNonzero

Next ==
  \/ NextDegeneracy
  \/ CallComputeSparseLookup
  \/ CallReduceCharges
  \/ CallFindDiagonalSparseBlocks

\* every function of the file applied to every input
Spec == Init /\ [][Next]_vars

SpecDegeneracy == Init /\ [][NextDegeneracy]_vars

SpecReduce == Init /\ [][CallReduceCharges]_vars

SpecLookup == Init /\ [][CallComputeSparseLookup]_vars

SpecBlocks == InitBlocks /\ [][CallFindDiagonalSparseBlocks]_vars

SpecPartition == InitPartition /\ [][CallFindBestPartition]_vars

(***************************************************************************)
(* Reference definitions: the fused charge of every index combination,     *)
(* enumerated directly from the raw leg charges in row-major order.        *)
(***************************************************************************)
\* number of index combinations of the legs (1 for no legs)
RefSize(raws) == SeqProd([n \in DOMAIN raws |-> Len(raws[n])])

\* the fused charge of every index combination, in row-major order of the
\* indices (the last leg's index runs fastest); no legs fuse to the identity
RECURSIVE RefFlat(_, _)
RefFlat(raws, fs) ==
  IF raws = <<>> THEN <<0>>
  ELSE LET rest == RefFlat(Tail(raws), Tail(fs))
           first == Head(raws)
       IN [k \in 1..(Len(first) * Len(rest)) |->
             DualValue(first[((k - 1) \div Len(rest)) + 1], Head(fs))
               + rest[((k - 1) % Len(rest)) + 1]]

\* number of index combinations that fuse to q
RefCount(raws, fs, q) ==
  LET flat == RefFlat(raws, fs)
  IN Cardinality({k \in DOMAIN flat : flat[k] = q})

\* 0-based flat indices, ascending, of the combinations whose charge is in target
RefKeptPositions(raws, fs, target) ==
  LET flat == RefFlat(raws, fs)
  IN Where([i \in DOMAIN flat |-> flat[i] \in Range(target)])

\* the fused charges of those combinations, in the same order
RefKeptCharges(raws, fs, target) ==
  LET flat == RefFlat(raws, fs)
  IN Masked(flat, [i \in DOMAIN flat |-> flat[i] \in Range(target)])

SomeLegEmpty == \E n \in DOMAIN charges : charges[n] = <<>>

(***************************************************************************)
(* Claims                                                                  *)
(***************************************************************************)
\* C3: the degeneracies returned by compute_fused_charge_degeneracies sum to
\* the product of the leg lengths, and the degeneracy of every returned unique
\* charge is the number of index combinations that fuse to it.
DegeneraciesCountFusions ==
  op = "compute_fused_charge_degeneracies" =>
    /\ SeqSum(res.degeneracies) = SeqProd(TensorDims)
    /\ Len(res.degeneracies) = Dim(res.charges)
    /\ \A m \in DOMAIN res.degeneracies :
         res.degeneracies[m] = RefCount(charges, flows, ChargeSeq(res.charges)[m])

\* C3 witness: three legs, two of them with several entries, fused to at least
\* two charges, one of them reached by several index combinations
DegeneraciesWitness ==
  /\ op = "compute_fused_charge_degeneracies"
  /\ Len(charges) = 3
  /\ Cardinality({n \in DOMAIN charges : Len(charges[n]) >= 2}) >= 2
  /\ Len(res.degeneracies) >= 2
  /\ \E m \in DOMAIN res.degeneracies : res.degeneracies[m] >= 2

\* C5: compute_num_nonzero is the number of index combinations whose fused
\* charge is the identity; it is 0 when a leg is empty or the identity is
\* unreachable, and never exceeds the product of the leg lengths.
NumNonzeroCountsIdentity ==
  op = "compute_num_nonzero" =>
    /\ res.count = RefCount(charges, flows, IdentityCharge)
    /\ SomeLegEmpty => res.count = 0
    /\ IdentityCharge \notin Range(RefFlat(charges, flows)) => res.count = 0
    /\ res.count <= SeqProd(TensorDims)

\* C5 witness: several legs, some but not all combinations conserve charge
NumNonzeroWitness ==
  /\ op = "compute_num_nonzero"
  /\ Len(charges) >= 2
  /\ res.count >= 2
  /\ res.count < SeqProd(TensorDims)

\* C8: for two or more positive dimensions _find_best_partition returns a
\* split p in [1, len(dims) - 1] of least |prod(dims[:p]) - prod(dims[p:])|
\* and, among those, of largest prod(dims[p:]); [2,3,4] gives 2, [4,4] gives 1.
PartitionDiff(ds, p) == Abs(SeqProd(Upto(ds, p)) - SeqProd(From(ds, p)))

BestPartitionBalanced ==
  (op = "find_best_partition" /\ Len(dims) >= 2) =>
    /\ ~res.err
    /\ res.partition \in 1..(Len(dims) - 1)
    /\ \A q \in 1..(Len(dims) - 1) :
         /\ PartitionDiff(dims, res.partition) <= PartitionDiff(dims, q)
         /\ PartitionDiff(dims, q) = PartitionDiff(dims, res.partition)
              => SeqProd(From(dims, q)) <= SeqProd(From(dims, res.partition))
    /\ dims = <<2, 3, 4>> => res.partition = 2
    /\ dims = <<4, 4>> => res.partition = 1

\* C8 witness: two splits are equally balanced and differ in their right product
BestPartitionWitness ==
  /\ op = "find_best_partition"
  /\ Len(dims) = 3
  /\ PartitionDiff(dims, 1) = PartitionDiff(dims, 2)
  /\ SeqProd(From(dims, 1)) # SeqProd(From(dims, 2))

\* the legs and flows of the row group and of the column group of a call
RowLegs == Upto(charges, arg.partition)
RowFlows == Upto(flows, arg.partition)
ColLegs == From(charges, arg.partition)
ColFlows == From(flows, arg.partition)

\* C1: the block maps returned by _find_diagonal_sparse_blocks are pairwise
\* disjoint (and repeat no position) and their union is exactly
\* {0, ..., compute_num_nonzero(charges, flows) - 1}, so their lengths sum to
\* compute_num_nonzero(charges, flows).
BlockMapsPartitionNonzero ==
  op = "find_diagonal_sparse_blocks" =>
    LET maps == res.block_maps
        nnz == ComputeNumNonzero(Legs, flows)
    IN /\ ~res.err
       /\ \A b \in DOMAIN maps : Cardinality(Range(maps[b])) = Len(maps[b])
       /\ \A a, b \in DOMAIN maps : a < b => Range(maps[a]) \cap Range(maps[b]) = {}
       /\ UNION {Range(maps[b]) : b \in DOMAIN maps} = 0..(nnz - 1)
       /\ SeqSum([b \in DOMAIN maps |-> Len(maps[b])]) = nnz

\* C1 witness: a proper bipartition with several non-empty blocks
BlockMapsWitness ==
  /\ op = "find_diagonal_sparse_blocks"
  /\ arg.partition \in 1..(Len(charges) - 1)
  /\ Len(res.block_maps) >= 2
  /\ \A b \in DOMAIN res.block_maps : Len(res.block_maps[b]) >= 1

\* C2: for every returned block b, block_dims[0,b] * block_dims[1,b] is the
\* length of block map b, block_dims[0,b] being the number of row-group index
\* combinations and block_dims[1,b] the number of column-group index
\* combinations (under the negated column flows) that fuse to the block's charge.
BlockDimsMatchMaps ==
  op = "find_diagonal_sparse_blocks" =>
    \A b \in DOMAIN res.block_maps :
      /\ res.block_dims[1][b] * res.block_dims[2][b] = Len(res.block_maps[b])
      /\ res.block_dims[1][b] = RefCount(RowLegs, RowFlows, res.obj.unique_charges[b])
      /\ res.block_dims[2][b] =
           RefCount(ColLegs, LogicalNot(ColFlows), res.obj.unique_charges[b])

\* C2 witness: a proper bipartition with a block of several rows and columns
BlockDimsWitness ==
  /\ op = "find_diagonal_sparse_blocks"
  /\ arg.partition \in 1..(Len(charges) - 1)
  /\ \E b \in DOMAIN res.block_maps :
       res.block_dims[1][b] >= 2 /\ res.block_dims[2][b] >= 2

\* C10 (as claimed): for every partition, the degenerate ones included, the
\* block-charge object has one entry per returned block map, entry b being the
\* charge of block b.
BlockChargesLabelEveryBlock ==
  op = "find_diagonal_sparse_blocks" =>
    /\ Dim(res.obj) = Len(res.block_maps)
    /\ \A b \in DOMAIN res.block_maps :
         res.block_dims[1][b] = RefCount(RowLegs, RowFlows, ChargeSeq(res.obj)[b])

\* C4 (as claimed): reduce_charges returns the charge sequence obtained by
\* fusing all legs into one row-major sequence and keeping, in order, the
\* positions whose charge is a target charge; with every fused charge among
\* the targets its length is the product of the leg lengths.
ReduceEqualsFuseThenFilter ==
  op = "reduce_charges" =>
    /\ ~res.err
    /\ ChargeSeq(res.obj) = RefKeptCharges(charges, flows, arg.target)
    /\ Range(RefFlat(charges, flows)) \subseteq Range(arg.target)
         => Dim(res.obj) = SeqProd(TensorDims)

\* C6 (as claimed): with an empty leg, or with no fused charge among the
\* targets, reduce_charges raises nothing and returns an empty reduced charge
\* and empty locations.
ReduceDegenerateIsEmpty ==
  (/\ op = "reduce_charges"
   /\ \/ SomeLegEmpty
      \/ Range(RefFlat(charges, flows)) \cap Range(arg.target) = {}) =>
    /\ ~res.err
    /\ Dim(res.obj) = 0
    /\ res.locs = <<>>

\* C7 (as claimed): on two or more legs, without strides the returned
\* locations are the row-major flat indices of the kept positions in ascending
\* order, one per entry of the reduced charge, and the strides of _get_strides
\* give exactly the same locations.
ReduceLocationsRowMajor ==
  (op = "reduce_charges" /\ arg.return_locations /\ Len(charges) >= 2) =>
    /\ ~res.err
    /\ Len(res.locs) = Dim(res.obj)
    /\ (~arg.has_strides \/ arg.strides = GetStrides(TensorDims))
         => res.locs = RefKeptPositions(charges, flows, arg.target)

\* What does hold of reduce_charges: whenever it returns, the reduced charge
\* and the row-major locations are those of fusing then filtering.
ReduceCorrectWhenReturned ==
  (op = "reduce_charges" /\ ~res.err) =>
    /\ ChargeSeq(res.obj) = RefKeptCharges(charges, flows, arg.target)
    /\ (arg.return_locations
        /\ (~arg.has_strides \/ arg.strides = GetStrides(TensorDims)))
         => res.locs = RefKeptPositions(charges, flows, arg.target)

\* reduce_charges raises exactly on these inputs of the checked space
ReduceRaisesOnlyOnEmptyLegs ==
  (op = "reduce_charges" /\ res.err) => (Len(charges) >= 2 /\ SomeLegEmpty)

\* C9 (as claimed): for charges=[[0,1,0,1]], flows=[true], target=[0] the
\* lookup is the positions 0, 2.
LookupInput ==
  /\ op = "compute_sparse_lookup"
  /\ charges = <<<<0, 1, 0, 1>>>>
  /\ flows = <<TRUE>>
  /\ arg.target = <<0>>

LookupIsPositions == LookupInput => res.lookup = <<0, 2>>

\* C9 (amended): for that input the lookup has one entry for each of the kept
\* positions 0 and 2, in that order, and each entry is the index of the
\* position's charge (0) in the returned unique charges, not the position.
LookupIsUniqueLabels ==
  LookupInput =>
    /\ RefKeptPositions(charges, flows, arg.target) = <<0, 2>>
    /\ Len(res.lookup) = 2
    /\ \A j \in DOMAIN res.lookup :
         /\ res.lookup[j] \in 0..(Dim(res.unique_charges) - 1)
         /\ ChargeSeq(res.unique_charges)[res.lookup[j] + 1] = 0

\* C9 witness: the call of the claim has been made
LookupWitness == LookupInput /\ Len(res.lookup) = 2

====
